---- MODULE Spec2Model ----
(***************************************************************************)
(* Identity & sync core of ZorixGlobalApp.jsx: withRetry, useFirebaseSetup, *)
(* useCmsConfig and submitLead, as state machines.                         *)
(***************************************************************************)
EXTENDS Integers, Sequences, FiniteSets, TLC

(* ------------------------------------------------------------------ *)
(* Bounds of the model and constants of the program                    *)
(* ------------------------------------------------------------------ *)

\* largest retries argument handed to withRetry on its own
MaxRetries == 6
\* withRetry's default arguments
DefaultRetries == 5
DefaultDelay == 1000
\* cap on the invocations of one retry sequence (reached only by a negative count)
MaxCalls == MaxRetries + 3

(* ------------------------------------------------------------------ *)
(* withRetry: one retry sequence is a record                           *)
(*   pc      "inflight" fn() was invoked and is awaited                *)
(*           "wait"     the setTimeout of line 19 is pending           *)
(*           "resolved" / "rejected" the promise has settled           *)
(*   retries, delay  the arguments of the current frame                *)
(*   calls   invocations of fn so far                                  *)
(*   waits   the delays handed to setTimeout, in order                 *)
(*   result  the settled value or error; attempt i yields Value(i) or  *)
(*           throws Err(i)                                             *)
(* ------------------------------------------------------------------ *)

NoResult == [kind |-> "none", of |-> 0]
Value(i) == [kind |-> "value", of |-> i]
Err(i) == [kind |-> "error", of |-> i]
IdleTask == [pc |-> "idle", retries |-> 0, delay |-> 0, calls |-> 0,
             waits |-> <<>>, result |-> NoResult]

\* withRetry(fn, retries, delay): the call invokes fn() at once (line 16)
withRetry(retries, delay) ==
    [pc |-> "inflight", retries |-> retries, delay |-> delay, calls |-> 1,
     waits |-> <<>>, result |-> NoResult]

\* a retry test off by one: gives up when one retry is left
withRetrySettle_offByOne(t, ok) ==
    IF ok THEN [t EXCEPT !.pc = "resolved", !.result = Value(t.calls)]
    ELSE IF t.retries <= 1
         THEN [t EXCEPT !.pc = "rejected", !.result = Err(t.calls)]
         ELSE [t EXCEPT !.pc = "wait", !.waits = Append(@, t.delay)]

\* rejects with the error of the first attempt instead of the last one
withRetrySettle_firstError(t, ok) ==
    IF ok THEN [t EXCEPT !.pc = "resolved", !.result = Value(t.calls)]
    ELSE IF t.retries = 0
         THEN [t EXCEPT !.pc = "rejected", !.result = Err(1)]
         ELSE [t EXCEPT !.pc = "wait", !.waits = Append(@, t.delay)]

\* sleeps once more before it hands the value back
withRetrySettle_delayAfterSuccess(t, ok) ==
    IF ok THEN [t EXCEPT !.pc = "resolved", !.result = Value(t.calls),
                         !.waits = Append(@, t.delay)]
    ELSE IF t.retries = 0
         THEN [t EXCEPT !.pc = "rejected", !.result = Err(t.calls)]
         ELSE [t EXCEPT !.pc = "wait", !.waits = Append(@, t.delay)]

\* fn() settles: return its value (line 16), or catch (17): rethrow when
\* retries === 0 (18), else start the timer (19)
withRetrySettle(t, ok) ==
    IF ok THEN [t EXCEPT !.pc = "resolved", !.result = Value(t.calls)]
    ELSE IF t.retries = 0
         THEN [t EXCEPT !.pc = "rejected", !.result = Err(t.calls)]
         ELSE [t EXCEPT !.pc = "wait", !.waits = Append(@, t.delay)]

\* a retry that waits the same time again
withRetryTimer_fixedDelay(t) ==
    [t EXCEPT !.pc = "inflight", !.retries = @ - 1, !.calls = @ + 1]

\* the timer fires: withRetry(fn, retries - 1, delay * 2) invokes fn() again (20, 16)
withRetryTimer(t) ==
    [t EXCEPT !.pc = "inflight", !.retries = @ - 1, !.delay = @ * 2,
              !.calls = @ + 1]

Settled(t) == t.pc \in {"resolved", "rejected"}

VARIABLES
    rt,     \* the retry sequence of a lone withRetry call
    rtN,    \* its retries argument
    rtD,    \* its delay argument
    rtK     \* the attempt on which the wrapped operation succeeds (0: never)

VARIABLES
    firebaseConfig,     \* line 10: is __firebase_config defined
    initialAuthToken,   \* line 11: is __initial_auth_token defined
    mounted,            \* App (and with it both hooks) is mounted
    fbRan,              \* the effect of useFirebaseSetup has run
    fbInit,             \* how it ended: "pending", "skipped" (34-38), "ok", "threw" (76)
    db, auth, userId, isAuthReady,      \* lines 27-30
    authSub,            \* the onAuthStateChanged subscription: none, active, released
    authSubscribes, authUnsubscribes,   \* calls of onAuthStateChanged / its unsubscribe
    currentUser,        \* authInstance.currentUser
    authQueue,          \* auth-state notifications not yet delivered
    cbs,                \* the runs of the auth-state callback, in delivery order
    nextUuid, nextUid,  \* crypto.randomUUID() / new anonymous users handed out so far
    authChanges,        \* sign-ins and sign-outs caused outside the program
    signedInEver        \* some principal was signed in at some time

VARIABLES
    config,             \* line 97: the config view
    cmsDeps,            \* [db, isAuthReady] of the last run of useCmsConfig's effect
    cmsSub,             \* the onSnapshot subscription: none, active, released
    cmsSubscribes, cmsUnsubscribes,
    cmsErrored,         \* the listener reported an error (and is dead since)
    seed,               \* the retry sequence of initializeDoc
    seedDone,           \* how initializeDoc ended: "", "seeded", "swallowed", "unhandled"
    seedLate,           \* initializeDoc ended after the teardown
    remoteDoc,          \* the shared document on the backend
    snapPending,        \* a snapshot of the document waits for delivery
    received,           \* the last two calls of the listeners of this subscription
    docChanges          \* edits of the document by others

VARIABLES
    sub,                \* the submitLead call in progress or last returned
    submits,            \* submitLead calls so far
    leads               \* records appended to the lead collections, in order

VARIABLES
    status,             \* line 515: the message the contact form shows
    isLoading,          \* line 516
    handling            \* handleSubmit: "idle", or "awaiting" submitLead (535)

retryVars == <<rt, rtN, rtD, rtK>>
envVars == <<firebaseConfig, initialAuthToken>>
idVars == <<fbRan, fbInit, db, auth, userId, isAuthReady, authSub, authSubscribes,
            authUnsubscribes, currentUser, authQueue, cbs, nextUuid, nextUid,
            authChanges, signedInEver>>
cmsVars == <<config, cmsDeps, cmsSub, cmsSubscribes, cmsUnsubscribes, cmsErrored,
             seed, seedDone, seedLate, remoteDoc, snapPending, received, docChanges>>
pageVars == <<status, isLoading, handling>>
leadVars == <<sub, submits, leads, pageVars>>
appVars == <<envVars, mounted, idVars, cmsVars, leadVars>>

vars == <<retryVars, appVars>>

(* ------------------------------------------------------------------ *)
(* Values of the application                                           *)
(* ------------------------------------------------------------------ *)

\* changes of the signed-in principal caused outside the program, edits of the shared document by
\* others, and submitLead calls, in one run
MaxAuthChanges == 1
MaxDocChanges == 1
MaxSubmits == 1

\* identifiers: null, the uid of a signed-in principal, a crypto.randomUUID()
NoUser == [kind |-> "null", n |-> 0]
Uid(k) == [kind |-> "uid", n |-> k]
Uuid(k) == [kind |-> "uuid", n |-> k]
\* the principal of a restored session, and the one __initial_auth_token names
PersistedUser == [kind |-> "uid", n |-> 0]
TokenUser == [kind |-> "tokenuid", n |-> 0]

NoDb == "null"
Firestore == "firestore"
NoAuth == "null"
AuthInstance == "auth"

\* line 96
defaultData ==
    [years |-> "5+", countries |-> "15+", projects |-> "500+", customers |-> "300+"]
EmptyData == [k \in {} |-> ""]

\* the shared document: docSnap.exists() and docSnap.data()
NoDoc == [exists |-> FALSE, data |-> EmptyData]
Doc(d) == [exists |-> TRUE, data |-> d]
DocStates ==
    {NoDoc, Doc(EmptyData), Doc([years |-> "7+"]),
     Doc([years |-> "9+", countries |-> "20+", projects |-> "900+",
          customers |-> "700+", region |-> "EMEA"])}

\* setDoc(docRef, data, { merge: true }): the fields of data replace the
\* document's, its other fields stay
MergeDoc(doc, data) ==
    Doc([k \in (DOMAIN doc.data) \cup (DOMAIN data) |->
            IF k \in DOMAIN data THEN data[k] ELSE doc.data[k]])

\* the document as the listener of this client sees it: a setDoc that is in
\* flight is already applied to the local copy, and taken back when it fails
LocalDoc(task, doc) ==
    IF task.pc = "inflight" THEN MergeDoc(doc, defaultData) ELSE doc

\* a state setter that also updates an unmounted component
SetState_afterUnmount(current, new) == new

\* a state setter of useState: React drops the update of an unmounted component
SetState(current, new) == IF mounted THEN new ELSE current

\* a sequence that goes over to signInAnonymously after a failed attempt
AttemptMethod_anonAfterFailure(method, attempt) ==
    IF attempt > 1 THEN "anon" ELSE method

\* lines 57-62: the function handed to withRetry is chosen before the first
\* attempt and called again as it is by every retry
AttemptMethod(method, attempt) == method

\* one run of the auth-state callback
\*   pc             "signin": awaiting withRetry (57-62); "done": returned
\*   user           the callback's argument
\*   currentUserId  the local of line 52 / 63
\*   method         "token" (59), "anon" (61) or "none" (a principal was present)
\*   task           the retry sequence of the sign-in
\*   tried          the sign-in functions its attempts have called
Callback(pc, user, id, method, task) ==
    [pc |-> pc, user |-> user, currentUserId |-> id, method |-> method, task |-> task,
     tried |-> IF pc = "signin" THEN {AttemptMethod(method, 1)} ELSE {}]

\* submitLead's results (140, 150, 153); NoReturn: it has not returned
NoReturn == [success |-> FALSE, message |-> ""]
NotReady ==
    [success |-> FALSE, message |-> "System not ready. Please try again later."]
Submitted ==
    [success |-> TRUE,
     message |-> "Thank you! Your inquiry has been successfully submitted."]
SubmitFailed ==
    [success |-> FALSE,
     message |-> "Submission failed. Please check your network connection."]

\* one call of submitLead
\*   pc      "idle", "running" (awaiting withRetry), "returned", "rejected"
\*   db, userId, ready   the arguments, and isAuthReady at the call
\*   task    the retry sequence of addDoc
\*   error   what the catch of line 151 caught
\*   result  the value the promise resolved with
NoSubmit ==
    [pc |-> "idle", db |-> NoDb, userId |-> NoUser, ready |-> FALSE,
     task |-> IdleTask, error |-> NoResult, result |-> NoReturn]

\* the status of the contact form (515), and the message of line 529
NoStatus == [message |-> "", type |-> "none"]
Pending ==
    "System initialization pending. Please wait for the 'Initializing secure connection' message to clear."

\* the form of the contact page filled in (line 514)
FormData ==
    [name |-> "Acme", company |-> "Acme Ltd", email |-> "a@acme.test",
     phone |-> "555", inquiry |-> "Quote Request"]

\* the text of an error of the backend: of building the reference (attempt 0)
\* or of an attempt of addDoc
ErrorMessage(error) ==
    IF error.of = 0 THEN "Invalid collection reference." ELSE "The client is offline."

AppInit ==
    /\ firebaseConfig \in BOOLEAN
    /\ initialAuthToken \in BOOLEAN
    /\ mounted = TRUE
    /\ fbRan = FALSE
    /\ fbInit = "pending"
    /\ db = NoDb
    /\ auth = NoAuth
    /\ userId = NoUser
    /\ isAuthReady = FALSE
    /\ authSub = "none"
    /\ authSubscribes = 0
    /\ authUnsubscribes = 0
    /\ currentUser \in {NoUser, PersistedUser}
    /\ authQueue = <<>>
    /\ cbs = <<>>
    /\ nextUuid = 0
    /\ nextUid = 0
    /\ signedInEver = (currentUser # NoUser)
    /\ config = defaultData
    /\ cmsDeps = [ran |-> FALSE, db |-> NoDb, isAuthReady |-> FALSE]
    /\ cmsSub = "none"
    /\ cmsSubscribes = 0
    /\ cmsUnsubscribes = 0
    /\ cmsErrored = FALSE
    /\ seed = IdleTask
    /\ seedDone = ""
    /\ seedLate = FALSE
    /\ remoteDoc \in DocStates
    /\ snapPending = FALSE
    /\ received = <<>>
    /\ docChanges = 0
    /\ sub = NoSubmit
    /\ submits = 0
    /\ leads = <<>>
    /\ status = NoStatus
    /\ isLoading = FALSE
    /\ handling = "idle"

\* the application at rest, for the runs of withRetry on its own
AppAtRest ==
    /\ AppInit
    /\ authChanges = 0
    /\ firebaseConfig = FALSE
    /\ initialAuthToken = FALSE
    /\ currentUser = NoUser
    /\ remoteDoc = NoDoc

RetryAtRest == rt = IdleTask /\ rtN = 0 /\ rtD = 0 /\ rtK = 0

(* ------------------------------------------------------------------ *)
(* useFirebaseSetup                                                    *)
(* ------------------------------------------------------------------ *)

\* the effect of lines 32-80, run once after mount. fails: where the try block
\* throws: "no", "early" (lines 44-46), "late" (line 51, after setDb and setAuth)
useFirebaseSetupEffect ==
    /\ mounted
    /\ ~fbRan
    /\ fbRan' = TRUE
    /\ IF ~firebaseConfig
       THEN /\ isAuthReady' = SetState(isAuthReady, TRUE)
            /\ fbInit' = "skipped"
            /\ UNCHANGED <<db, auth, authSub, authSubscribes, authQueue>>
       ELSE \E fails \in {"no", "early", "late"} :
              /\ fbInit' = IF fails = "no" THEN "ok" ELSE "threw"
              /\ db' = IF fails = "early" THEN db ELSE SetState(db, Firestore)
              /\ auth' = IF fails = "early" THEN auth ELSE SetState(auth, AuthInstance)
              /\ IF fails = "no"
                 THEN /\ authSub' = "active"
                      /\ authSubscribes' = authSubscribes + 1
                      /\ authQueue' = Append(authQueue, currentUser)
                      /\ UNCHANGED isAuthReady
                 ELSE /\ isAuthReady' = SetState(isAuthReady, TRUE)
                      /\ UNCHANGED <<authSub, authSubscribes, authQueue>>
    /\ UNCHANGED <<userId, authUnsubscribes, currentUser, cbs, nextUuid, nextUid,
                   authChanges, signedInEver>>
    /\ UNCHANGED <<retryVars, envVars, mounted, cmsVars, leadVars>>

\* leaves the callback in the catch of line 64: ready only after a sign-in
SetIdentity_noReadyOnFallback(id) ==
    /\ userId' = SetState(userId, id)
    /\ isAuthReady' = SetState(isAuthReady, isAuthReady \/ id.kind # "uuid")

\* setIsAuthReady(<a principal is signed in>) instead of setIsAuthReady(true)
SetIdentity_readyIffSignedIn(id) ==
    /\ userId' = SetState(userId, id)
    /\ isAuthReady' = SetState(isAuthReady, id.kind # "uuid")

\* lines 69-70 of the callback
SetIdentity(id) ==
    /\ userId' = SetState(userId, id)
    /\ isAuthReady' = SetState(isAuthReady, TRUE)

\* line 52 without its || crypto.randomUUID()
FallbackId_noUuid == currentUser

\* line 52: authInstance.currentUser?.uid || crypto.randomUUID()
FallbackId == IF currentUser # NoUser THEN currentUser ELSE Uuid(nextUuid + 1)

\* the listener of line 51 is called with the next notification: lines 52-62
\* up to the await, or the whole callback when a principal is present
onAuthStateChangedCallback ==
    /\ authSub = "active"
    /\ authQueue # <<>>
    /\ LET user == Head(authQueue)
           id == FallbackId
       IN /\ authQueue' = Tail(authQueue)
          /\ nextUuid' = IF currentUser # NoUser THEN nextUuid ELSE nextUuid + 1
          /\ IF user = NoUser
             THEN /\ cbs' = Append(cbs,
                        Callback("signin", user, id,
                                 IF initialAuthToken THEN "token" ELSE "anon",
                                 withRetry(DefaultRetries, DefaultDelay)))
                  /\ UNCHANGED <<userId, isAuthReady>>
             ELSE /\ cbs' = Append(cbs, Callback("done", user, id, "none", IdleTask))
                  /\ SetIdentity(id)
    /\ UNCHANGED <<fbRan, fbInit, db, auth, authSub, authSubscribes, authUnsubscribes,
                   currentUser, nextUid, authChanges, signedInEver>>
    /\ UNCHANGED <<retryVars, envVars, mounted, cmsVars, leadVars>>

\* the principal a successful sign-in leaves signed in: signInWithCustomToken
\* signs in the token's principal; signInAnonymously keeps the principal already
\* signed in and creates a new anonymous one otherwise
SignedIn(method) ==
    IF method = "token" THEN TokenUser
    ELSE IF currentUser # NoUser THEN currentUser
    ELSE Uid(nextUid + 1)

\* the sign-in of callback c resolves: withRetry returns, line 63, 69-70
SignInSucceeds(c) ==
    /\ c \in DOMAIN cbs
    /\ cbs[c].pc = "signin"
    /\ cbs[c].task.pc = "inflight"
    /\ authQueue = <<>>
    /\ LET u == SignedIn(AttemptMethod(cbs[c].method, cbs[c].task.calls))
       IN /\ currentUser' = u
          /\ nextUid' = IF u = Uid(nextUid + 1) THEN nextUid + 1 ELSE nextUid
          /\ authQueue' = IF u # currentUser /\ authSub = "active"
                          THEN Append(authQueue, u) ELSE authQueue
          /\ cbs' = [cbs EXCEPT ![c].task = withRetrySettle(@, TRUE),
                                ![c].currentUserId = u,
                                ![c].pc = "done"]
          /\ SetIdentity(u)
    /\ signedInEver' = TRUE
    /\ UNCHANGED <<fbRan, fbInit, db, auth, authSub, authSubscribes, authUnsubscribes,
                   nextUuid, authChanges>>
    /\ UNCHANGED <<retryVars, envVars, mounted, cmsVars, leadVars>>

\* the sign-in of callback c throws: withRetry waits, or rethrows into the
\* catch of line 64 and the callback goes on with lines 69-70
SignInFails(c) ==
    /\ c \in DOMAIN cbs
    /\ cbs[c].pc = "signin"
    /\ cbs[c].task.pc = "inflight"
    /\ LET t == withRetrySettle(cbs[c].task, FALSE)
       IN IF t.pc = "rejected"
          THEN /\ cbs' = [cbs EXCEPT ![c].task = t, ![c].pc = "done"]
               /\ SetIdentity(cbs[c].currentUserId)
          ELSE /\ cbs' = [cbs EXCEPT ![c].task = t]
               /\ UNCHANGED <<userId, isAuthReady>>
    /\ UNCHANGED <<fbRan, fbInit, db, auth, authSub, authSubscribes, authUnsubscribes,
                   currentUser, authQueue, nextUuid, nextUid, authChanges, signedInEver>>
    /\ UNCHANGED <<retryVars, envVars, mounted, cmsVars, leadVars>>

\* the backoff timer of callback c's sign-in fires: the next attempt starts
SignInTimer(c) ==
    /\ c \in DOMAIN cbs
    /\ cbs[c].pc = "signin"
    /\ cbs[c].task.pc = "wait"
    /\ cbs' = [cbs EXCEPT ![c].task = withRetryTimer(@),
                          ![c].tried = @ \cup {AttemptMethod(cbs[c].method,
                                                             cbs[c].task.calls + 1)}]
    /\ UNCHANGED <<fbRan, fbInit, db, auth, userId, isAuthReady, authSub, authSubscribes,
                   authUnsubscribes, currentUser, authQueue, nextUuid, nextUid,
                   authChanges, signedInEver>>
    /\ UNCHANGED <<retryVars, envVars, mounted, cmsVars, leadVars>>

\* the signed-in principal changes outside the program (the session is revoked
\* or expires, another tab of the browser signs in or out): the listeners are told.
\* A listener is called right after the change it reports, before the principal
\* changes again, so the argument of a callback is the currentUser it reads
ExternalAuthChange ==
    /\ authChanges < MaxAuthChanges
    /\ authQueue = <<>>
    /\ authChanges' = authChanges + 1
    /\ currentUser' = IF currentUser # NoUser THEN NoUser ELSE PersistedUser
    /\ authQueue' = IF authSub = "active" THEN Append(authQueue, currentUser')
                    ELSE authQueue
    /\ signedInEver' = TRUE
    /\ UNCHANGED <<fbRan, fbInit, db, auth, userId, isAuthReady, authSub, authSubscribes,
                   authUnsubscribes, cbs, nextUuid, nextUid>>
    /\ UNCHANGED <<retryVars, envVars, mounted, cmsVars, leadVars>>

(* ------------------------------------------------------------------ *)
(* useCmsConfig                                                        *)
(* ------------------------------------------------------------------ *)

\* the guard without its !isAuthReady, and without its !db
CmsGuardPasses_dbOnly(d, ready) == d # NoDb
CmsGuardPasses_readyOnly(d, ready) == ready

\* line 101: the guard of the effect
CmsGuardPasses(d, ready) == d # NoDb /\ ready

\* the effect of lines 99-129 runs after mount and after every change of
\* [db, isAuthReady]: the cleanup of the run before it (128), then the guard,
\* initializeDoc() up to its first await (106-113) and onSnapshot (116)
useCmsConfigEffect ==
    /\ mounted
    /\ \/ ~cmsDeps.ran
       \/ cmsDeps.db # db
       \/ cmsDeps.isAuthReady # isAuthReady
    /\ cmsDeps' = [ran |-> TRUE, db |-> db, isAuthReady |-> isAuthReady]
    /\ cmsUnsubscribes' = IF cmsSub = "active" THEN cmsUnsubscribes + 1
                          ELSE cmsUnsubscribes
    /\ IF CmsGuardPasses(db, isAuthReady)
       THEN /\ seed' = withRetry(DefaultRetries, DefaultDelay)
            /\ seedDone' = ""
            /\ seedLate' = FALSE
            /\ cmsSub' = "active"
            /\ cmsSubscribes' = cmsSubscribes + 1
            /\ cmsErrored' = FALSE
            /\ snapPending' = TRUE
            /\ received' = <<>>
       ELSE /\ cmsSub' = IF cmsSub = "active" THEN "released" ELSE cmsSub
            /\ snapPending' = FALSE
            /\ UNCHANGED <<seed, seedDone, seedLate, cmsSubscribes, cmsErrored, received>>
    /\ UNCHANGED <<config, remoteDoc, docChanges>>
    /\ UNCHANGED <<retryVars, envVars, mounted, idVars, leadVars>>

\* a live listener is sent a snapshot when the document it sees has changed
SnapshotDue(before, after) ==
    IF cmsSub = "active" /\ ~cmsErrored /\ before # after THEN TRUE ELSE snapPending

\* the setDoc of line 108 succeeds: the defaults are merged into the document
SeedSucceeds ==
    /\ seed.pc = "inflight"
    /\ seed' = withRetrySettle(seed, TRUE)
    /\ seedDone' = "seeded"
    /\ seedLate' = ~mounted
    /\ remoteDoc' = MergeDoc(remoteDoc, defaultData)
    /\ snapPending' = SnapshotDue(LocalDoc(seed, remoteDoc), LocalDoc(seed', remoteDoc'))
    /\ UNCHANGED <<config, cmsDeps, cmsSub, cmsSubscribes, cmsUnsubscribes,
                   cmsErrored, received, docChanges>>
    /\ UNCHANGED <<retryVars, envVars, mounted, idVars, leadVars>>

\* an initializeDoc without its try and catch: the rejection leaves the hook
initializeDocCatch_unhandled(t) == IF t.pc = "rejected" THEN "unhandled" ELSE seedDone

\* lines 109-112: the catch of initializeDoc only logs
initializeDocCatch(t) == IF t.pc = "rejected" THEN "swallowed" ELSE seedDone

\* the setDoc of line 108 throws: withRetry waits, or rethrows into the catch
\* of line 109
SeedFails ==
    /\ seed.pc = "inflight"
    /\ seed' = withRetrySettle(seed, FALSE)
    /\ seedDone' = initializeDocCatch(seed')
    /\ seedLate' = (seed'.pc = "rejected" /\ ~mounted)
    /\ snapPending' = SnapshotDue(LocalDoc(seed, remoteDoc), LocalDoc(seed', remoteDoc))
    /\ UNCHANGED <<config, cmsDeps, cmsSub, cmsSubscribes, cmsUnsubscribes,
                   cmsErrored, remoteDoc, received, docChanges>>
    /\ UNCHANGED <<retryVars, envVars, mounted, idVars, leadVars>>

\* the backoff timer of the seed write fires: setDoc is called again
SeedTimer ==
    /\ seed.pc = "wait"
    /\ seed' = withRetryTimer(seed)
    /\ snapPending' = SnapshotDue(LocalDoc(seed, remoteDoc), LocalDoc(seed', remoteDoc))
    /\ UNCHANGED <<config, cmsDeps, cmsSub, cmsSubscribes, cmsUnsubscribes,
                   cmsErrored, seedDone, seedLate, remoteDoc, received, docChanges>>
    /\ UNCHANGED <<retryVars, envVars, mounted, idVars, leadVars>>

\* a call of the listener of line 116 with docSnap, and of the one of line 122
NextCall(docSnap) == [kind |-> "next", docSnap |-> docSnap]
ErrorCall == [kind |-> "error", docSnap |-> NoDoc]

\* the calls so far, cut to the last two
Remember(calls, call) ==
    IF Len(calls) < 2 THEN Append(calls, call) ELSE <<calls[2], call>>

\* a view that lays the received mapping over the defaults
SnapshotView_overDefaults(docSnap) == MergeDoc(Doc(defaultData), docSnap.data).data

\* the view after a snapshot: lines 117-121
SnapshotView(docSnap) == IF docSnap.exists THEN docSnap.data ELSE defaultData

\* an error listener that leaves the view as it is
ErrorView_keepsView(view) == view

\* the view after an error of the listener: line 125
ErrorView(view) == defaultData

\* a subscription that is opened after initializeDoc() was awaited
SnapshotDeliverable_afterSeed ==
    cmsSub = "active" /\ ~cmsErrored /\ snapPending /\ Settled(seed)

\* lines 113-116: initializeDoc() is not awaited, so the listener is called
\* whenever the open subscription has a snapshot for it
SnapshotDeliverable == cmsSub = "active" /\ ~cmsErrored /\ snapPending

\* the listener of line 116 receives the document as this client sees it now
onSnapshotNext ==
    /\ SnapshotDeliverable
    /\ snapPending' = FALSE
    /\ config' = SetState(config, SnapshotView(LocalDoc(seed, remoteDoc)))
    /\ received' = Remember(received, NextCall(LocalDoc(seed, remoteDoc)))
    /\ UNCHANGED <<cmsDeps, cmsSub, cmsSubscribes, cmsUnsubscribes, cmsErrored,
                   seed, seedDone, seedLate, remoteDoc, docChanges>>
    /\ UNCHANGED <<retryVars, envVars, mounted, idVars, leadVars>>

\* the error listener of line 122; the backend ends a listener that failed
onSnapshotError ==
    /\ cmsSub = "active"
    /\ ~cmsErrored
    /\ cmsErrored' = TRUE
    /\ snapPending' = FALSE
    /\ config' = SetState(config, ErrorView(config))
    /\ received' = Remember(received, ErrorCall)
    /\ UNCHANGED <<cmsDeps, cmsSub, cmsSubscribes, cmsUnsubscribes, seed, seedDone,
                   seedLate, remoteDoc, docChanges>>
    /\ UNCHANGED <<retryVars, envVars, mounted, idVars, leadVars>>

\* somebody else writes or deletes the shared document
DocChange ==
    /\ docChanges < MaxDocChanges
    /\ docChanges' = docChanges + 1
    /\ \E d \in DocStates \ {remoteDoc} : remoteDoc' = d
    /\ snapPending' = SnapshotDue(LocalDoc(seed, remoteDoc), LocalDoc(seed, remoteDoc'))
    /\ UNCHANGED <<config, cmsDeps, cmsSub, cmsSubscribes, cmsUnsubscribes,
                   cmsErrored, seed, seedDone, seedLate, received>>
    /\ UNCHANGED <<retryVars, envVars, mounted, idVars, leadVars>>

(* ------------------------------------------------------------------ *)
(* submitLead                                                          *)
(* ------------------------------------------------------------------ *)

\* the guard without its !userId, and with && for its ||
SubmitGuardFails_dbOnly(d, id) == d = NoDb
SubmitGuardFails_both(d, id) == d = NoDb /\ id = NoUser

\* line 138
SubmitGuardFails(d, id) == d = NoDb \/ id = NoUser

\* a catch that hands the caller the text of the error, and a submitLead that
\* has no catch
CatchSubmit_rawMessage(error) ==
    [pc |-> "returned", result |-> [success |-> FALSE, message |-> ErrorMessage(error)]]
CatchSubmit_rethrows(error) == [pc |-> "rejected", result |-> NoReturn]

\* lines 151-154: the catch of submitLead
CatchSubmit(error) == [pc |-> "returned", result |-> SubmitFailed]

\* a collection that is not scoped by the user
getLeadsCollectionRef_shared(d, id) ==
    [db |-> d, users |-> NoUser, collection |-> "zorix_leads"]

\* line 90: artifacts/{appId}/users/{userId}/zorix_leads
getLeadsCollectionRef(d, id) == [db |-> d, users |-> id, collection |-> "zorix_leads"]

\* new Date().toISOString() at time now
toISOString(now) == [iso |-> now]

\* lines 145-149: the form's fields, then timestamp and status
LeadData(fields, now) ==
    [k \in (DOMAIN fields) \cup {"timestamp", "status"} |->
        IF k = "timestamp" THEN toISOString(now)
        ELSE IF k = "status" THEN "New" ELSE fields[k]]

\* the record an attempt of addDoc of submission n writes; the clock is read
\* in every attempt (147) and ticks once per submission
LeadRecord(s, n) ==
    [ref |-> getLeadsCollectionRef(s.db, s.userId), submission |-> n,
     data |-> LeadData(FormData, n)]

\* submitLead(db, userId, formData) with the values useFirebaseSetup holds:
\* lines 138-145, up to the await. refThrows: collection() of line 90 throws
submitLeadCall ==
    /\ mounted
    /\ sub.pc # "running"
    /\ submits < MaxSubmits
    /\ submits' = submits + 1
    /\ LET call == [NoSubmit EXCEPT !.db = db, !.userId = userId,
                                    !.ready = isAuthReady]
       IN IF SubmitGuardFails(db, userId)
          THEN sub' = [call EXCEPT !.pc = "returned", !.result = NotReady]
          ELSE \E refThrows \in BOOLEAN :
                 sub' = IF refThrows
                        THEN [call EXCEPT !.error = Err(0),
                                          !.pc = CatchSubmit(Err(0)).pc,
                                          !.result = CatchSubmit(Err(0)).result]
                        ELSE [call EXCEPT !.pc = "running",
                                          !.task = withRetry(DefaultRetries,
                                                             DefaultDelay)]
    /\ UNCHANGED leads
    /\ UNCHANGED <<retryVars, envVars, mounted, idVars, cmsVars>>

\* submitLead called on its own, in any state of the hooks
submitLead == submitLeadCall /\ UNCHANGED pageVars

\* a handleSubmit that leaves the sending state only after a success
LoadingAfter_onlyOnSuccess(result) == ~result.success

\* line 544: setIsLoading(false) after either branch of lines 537-542
LoadingAfter(result) == FALSE

\* the form is submitted (558; the button of 595-597 is enabled): lines 523-535
\* up to the await; setIsLoading(true) and setIsLoading(false) of the refusal
\* of lines 528-533 are one update
handleSubmit ==
    /\ mounted
    /\ isAuthReady
    /\ ~isLoading
    /\ handling = "idle"
    /\ IF SubmitGuardFails(db, userId)
       THEN /\ status' = SetState(status, [message |-> Pending, type |-> "error"])
            /\ isLoading' = SetState(isLoading, FALSE)
            /\ UNCHANGED <<handling, sub, submits, leads>>
            /\ UNCHANGED <<retryVars, envVars, mounted, idVars, cmsVars>>
       ELSE /\ submitLeadCall
            /\ status' = SetState(status, NoStatus)
            /\ isLoading' = SetState(isLoading, TRUE)
            /\ handling' = "awaiting"

\* submitLead has returned: lines 537-544
handleSubmitResume ==
    /\ handling = "awaiting"
    /\ sub.pc = "returned"
    /\ handling' = "idle"
    /\ status' = SetState(status,
                          [message |-> sub.result.message,
                           type |-> IF sub.result.success THEN "success" ELSE "error"])
    /\ isLoading' = SetState(isLoading, LoadingAfter(sub.result))
    /\ UNCHANGED <<sub, submits, leads>>
    /\ UNCHANGED <<retryVars, envVars, mounted, idVars, cmsVars>>

\* a backend that stores the record of an attempt it reports as failed
addDoc_storesThenFails(coll, rec, ok) == Append(coll, rec)

\* addDoc(leadsCollectionRef, rec) on the backend: the record is stored whole
\* when the call succeeds and not at all when it fails
addDoc(coll, rec, ok) == IF ok THEN Append(coll, rec) ELSE coll

\* the addDoc of line 145 succeeds: the record is appended, line 150
AddDocSucceeds ==
    /\ sub.pc = "running"
    /\ sub.task.pc = "inflight"
    /\ leads' = addDoc(leads, LeadRecord(sub, submits), TRUE)
    /\ sub' = [sub EXCEPT !.task = withRetrySettle(@, TRUE), !.pc = "returned",
                          !.result = Submitted]
    /\ UNCHANGED <<submits, pageVars>>
    /\ UNCHANGED <<retryVars, envVars, mounted, idVars, cmsVars>>

\* the addDoc of line 145 throws: withRetry waits, or rethrows into the catch
\* of line 151
AddDocFails ==
    /\ sub.pc = "running"
    /\ sub.task.pc = "inflight"
    /\ LET t == withRetrySettle(sub.task, FALSE)
       IN sub' = IF t.pc = "rejected"
                 THEN [sub EXCEPT !.task = t, !.error = t.result,
                                  !.pc = CatchSubmit(t.result).pc,
                                  !.result = CatchSubmit(t.result).result]
                 ELSE [sub EXCEPT !.task = t]
    /\ leads' = addDoc(leads, LeadRecord(sub, submits), FALSE)
    /\ UNCHANGED <<submits, pageVars>>
    /\ UNCHANGED <<retryVars, envVars, mounted, idVars, cmsVars>>

AddDocTimer ==
    /\ sub.pc = "running"
    /\ sub.task.pc = "wait"
    /\ sub' = [sub EXCEPT !.task = withRetryTimer(@)]
    /\ UNCHANGED <<submits, leads, pageVars>>
    /\ UNCHANGED <<retryVars, envVars, mounted, idVars, cmsVars>>

(* ------------------------------------------------------------------ *)
(* Teardown and the specifications                                     *)
(* ------------------------------------------------------------------ *)

\* an effect of useFirebaseSetup that returns no cleanup
AuthCleanup_missing == UNCHANGED <<authSub, authUnsubscribes, authQueue>>

\* line 75: the cleanup of useFirebaseSetup's effect, if the effect returned one
AuthCleanup ==
    /\ authSub' = IF authSub = "active" THEN "released" ELSE authSub
    /\ authUnsubscribes' = IF authSub = "active" THEN authUnsubscribes + 1
                           ELSE authUnsubscribes
    /\ authQueue' = <<>>

\* an effect of useCmsConfig that returns no cleanup
CmsCleanup_missing == UNCHANGED <<cmsSub, cmsUnsubscribes, snapPending>>

\* line 128: the cleanup of useCmsConfig's effect, if the effect returned one
CmsCleanup ==
    /\ cmsSub' = IF cmsSub = "active" THEN "released" ELSE cmsSub
    /\ cmsUnsubscribes' = IF cmsSub = "active" THEN cmsUnsubscribes + 1
                          ELSE cmsUnsubscribes
    /\ snapPending' = FALSE

\* App unmounts: the cleanups of lines 75 and 128 run
Unmount ==
    /\ mounted
    /\ mounted' = FALSE
    /\ AuthCleanup
    /\ CmsCleanup
    /\ UNCHANGED <<fbRan, fbInit, db, auth, userId, isAuthReady, authSubscribes, currentUser,
                   cbs, nextUuid, nextUid, authChanges, signedInEver>>
    /\ UNCHANGED <<config, cmsDeps, cmsSubscribes, cmsErrored, seed, seedDone,
                   seedLate, remoteDoc, received, docChanges>>
    /\ UNCHANGED <<retryVars, envVars, leadVars>>

CallbackIds == 1 .. (2 + 2 * MaxAuthChanges)

Init == RetryAtRest /\ AppInit /\ authChanges = 0

Next ==
    \/ useFirebaseSetupEffect
    \/ onAuthStateChangedCallback
    \/ \E c \in DOMAIN cbs : SignInSucceeds(c)
    \/ \E c \in DOMAIN cbs : SignInFails(c)
    \/ \E c \in DOMAIN cbs : SignInTimer(c)
    \/ ExternalAuthChange
    \/ useCmsConfigEffect
    \/ SeedSucceeds
    \/ SeedFails
    \/ SeedTimer
    \/ onSnapshotNext
    \/ onSnapshotError
    \/ DocChange
    \/ submitLead
    \/ AddDocSucceeds
    \/ AddDocFails
    \/ AddDocTimer
    \/ handleSubmit
    \/ handleSubmitResume
    \/ Unmount

Spec == Init /\ [][Next]_vars

\* The three components meet only in db, userId and isAuthReady, which
\* useFirebaseSetup alone writes. useFirebaseSetup is checked on its own and
\* beside submitLead under every auth-state change; useCmsConfig, which reads
\* db and isAuthReady only, is checked beside a useFirebaseSetup whose principal
\* changes only by its own sign-ins.

IdSteps ==
    \/ useFirebaseSetupEffect
    \/ onAuthStateChangedCallback
    \/ \E c \in DOMAIN cbs : SignInSucceeds(c)
    \/ \E c \in DOMAIN cbs : SignInFails(c)
    \/ \E c \in DOMAIN cbs : SignInTimer(c)

\* useFirebaseSetup on its own
IdInit == Init /\ remoteDoc = NoDoc

IdNext == IdSteps \/ ExternalAuthChange \/ Unmount

IdSpec == IdInit /\ [][IdNext]_vars

\* useFirebaseSetup while App stays mounted, every step taken in the end: the
\* effect runs after the first render, a queued notification is delivered, a
\* sign-in request settles, a timer fires
LiveNext == IdSteps \/ ExternalAuthChange

LiveSpec ==
    /\ IdInit
    /\ [][LiveNext]_vars
    /\ WF_vars(useFirebaseSetupEffect)
    /\ WF_vars(onAuthStateChangedCallback)
    /\ \A c \in CallbackIds :
          /\ WF_vars(SignInSucceeds(c) \/ SignInFails(c))
          /\ WF_vars(SignInTimer(c))

\* no backend configuration: the steps that can be taken at all
DegradedInit == Init /\ ~firebaseConfig

DegradedNext ==
    \/ useFirebaseSetupEffect
    \/ ExternalAuthChange
    \/ useCmsConfigEffect
    \/ DocChange
    \/ submitLead
    \/ Unmount

DegradedSpec == DegradedInit /\ [][DegradedNext]_vars

\* no change of the principal from outside in this run
QuietAuth == authChanges = MaxAuthChanges

\* useFirebaseSetup and useCmsConfig
CmsInit == RetryAtRest /\ AppInit /\ QuietAuth

CmsNext ==
    \/ IdSteps
    \/ useCmsConfigEffect
    \/ SeedSucceeds
    \/ SeedFails
    \/ SeedTimer
    \/ onSnapshotNext
    \/ onSnapshotError
    \/ DocChange
    \/ Unmount

CmsSpec == CmsInit /\ [][CmsNext]_vars

\* useFirebaseSetup and useCmsConfig with sign-ins and sign-outs from outside,
\* the shared document left alone by others and its listener never failing
TeardownInit == IdInit

TeardownNext ==
    \/ IdSteps
    \/ ExternalAuthChange
    \/ useCmsConfigEffect
    \/ SeedSucceeds
    \/ SeedFails
    \/ SeedTimer
    \/ onSnapshotNext
    \/ Unmount

TeardownSpec == TeardownInit /\ [][TeardownNext]_vars

\* useFirebaseSetup and submitLead
LeadInit == IdInit

LeadNext ==
    \/ IdSteps
    \/ ExternalAuthChange
    \/ submitLead
    \/ AddDocSucceeds
    \/ AddDocFails
    \/ AddDocTimer
    \/ Unmount

LeadSpec == LeadInit /\ [][LeadNext]_vars

\* useFirebaseSetup and the contact form; the submission in flight settles,
\* its timers fire and the handler is resumed
FormNext ==
    \/ IdSteps
    \/ handleSubmit
    \/ AddDocSucceeds
    \/ AddDocFails
    \/ AddDocTimer
    \/ handleSubmitResume
    \/ Unmount

FormSpec ==
    /\ IdInit
    /\ [][FormNext]_vars
    /\ WF_vars(AddDocSucceeds \/ AddDocFails)
    /\ WF_vars(AddDocTimer)
    /\ WF_vars(handleSubmitResume)

(* ------------------------------------------------------------------ *)
(* withRetry on its own: any count, any delay, any operation           *)
(* ------------------------------------------------------------------ *)

RetryCounts == (-1) .. MaxRetries
RetryDelays == {1, 3, DefaultDelay}

NeverSucceeds == 0
SuccessAttempts == 0 .. (MaxRetries + 1)

RetryInit ==
    /\ rtN \in RetryCounts
    /\ rtD \in RetryDelays
    /\ rtK \in SuccessAttempts
    /\ rt = IdleTask
    /\ AppAtRest

RetryCall ==
    /\ rt.pc = "idle"
    /\ rt' = withRetry(rtN, rtD)
    /\ UNCHANGED <<rtN, rtD, rtK, appVars>>

RetryOpSucceeds ==
    /\ rt.pc = "inflight"
    /\ rt.calls = rtK
    /\ rt' = withRetrySettle(rt, TRUE)
    /\ UNCHANGED <<rtN, rtD, rtK, appVars>>

RetryOpFails ==
    /\ rt.pc = "inflight"
    /\ rt.calls # rtK
    /\ rt' = withRetrySettle(rt, FALSE)
    /\ UNCHANGED <<rtN, rtD, rtK, appVars>>

RetryTimerFires ==
    /\ rt.pc = "wait"
    /\ rt.calls < MaxCalls
    /\ rt' = withRetryTimer(rt)
    /\ UNCHANGED <<rtN, rtD, rtK, appVars>>

RetryNext == RetryCall \/ RetryOpSucceeds \/ RetryOpFails \/ RetryTimerFires

RetrySpec == RetryInit /\ [][RetryNext]_vars

\* past MaxCalls invocations the sequence is followed without counting: that
\* many calls are reached only with a negative count, which every retry takes
\* further from the 0 of line 18, so the attempts and timers go on as before.
\* pc "beyond": an attempt past MaxCalls is in flight
RetryTimerBeyond ==
    /\ rt.pc = "wait"
    /\ rt.calls = MaxCalls
    /\ rt.retries < 0
    /\ rt' = [rt EXCEPT !.pc = "beyond"]
    /\ UNCHANGED <<rtN, rtD, rtK, appVars>>

RetryFailsBeyond ==
    /\ rt.pc = "beyond"
    /\ rtK = NeverSucceeds
    /\ rt' = [rt EXCEPT !.pc = "wait"]
    /\ UNCHANGED <<rtN, rtD, rtK, appVars>>

RetryLiveNext == RetryNext \/ RetryTimerBeyond \/ RetryFailsBeyond

\* withRetry where every pending promise settles and every timer fires
RetryLiveSpec ==
    /\ RetryInit
    /\ [][RetryLiveNext]_vars
    /\ WF_vars(RetryCall)
    /\ WF_vars(RetryOpSucceeds \/ RetryOpFails)
    /\ WF_vars(RetryTimerFires)
    /\ WF_vars(RetryTimerBeyond)
    /\ WF_vars(RetryFailsBeyond)

(* ------------------------------------------------------------------ *)
(* Claims about withRetry                                              *)
(* ------------------------------------------------------------------ *)

\* C1 as stated: with N >= 1 as the count argument and an operation that fails
\* on every attempt, withRetry rejects after exactly N invocations.
C1_RejectsAfterNCalls ==
    (rtN >= 1 /\ rtK = NeverSucceeds /\ Settled(rt))
        => (rt.pc = "rejected" /\ rt.calls = rtN)

\* C1 amended: with N >= 1 as the count argument and an operation that fails on
\* every attempt, withRetry rejects after exactly N + 1 invocations (the first
\* attempt and N retries).
C1_RejectsAfterNPlusOneCalls ==
    (rtN >= 1 /\ rtK = NeverSucceeds /\ Settled(rt))
        => (rt.pc = "rejected" /\ rt.calls = rtN + 1)

C1_Witness ==
    /\ rtN = DefaultRetries
    /\ rtK = NeverSucceeds
    /\ rt.pc = "rejected"
    /\ rt.calls = DefaultRetries + 1

\* C2: when every attempt fails, the rejection handed to the caller is the error
\* thrown by the last attempt itself: an error, of the attempt counted last.
C2_RejectsWithLastError ==
    (rtK = NeverSucceeds /\ rt.pc = "rejected") => rt.result = Err(rt.calls)

C2_Witness ==
    /\ rtK = NeverSucceeds
    /\ rt.pc = "rejected"
    /\ rt.calls >= 3
    /\ rt.result = Err(rt.calls)

\* C3: when the operation fails on attempts 1..k-1 and succeeds on attempt
\* k <= N, it is invoked k times and never more, at most k-1 delays are ever
\* started (none after the success), and the call resolves with attempt k's value.
C3_SucceedsOnAttemptK ==
    (rtK # NeverSucceeds /\ rtK <= rtN)
        => /\ rt.calls <= rtK
           /\ Len(rt.waits) <= rtK - 1
           /\ rt.pc # "rejected"
           /\ rt.pc = "resolved"
                 => /\ rt.calls = rtK
                    /\ rt.result = Value(rtK)
                    /\ Len(rt.waits) = rtK - 1

C3_Witness ==
    /\ rtK = 3
    /\ rtK <= rtN
    /\ rt.pc = "resolved"
    /\ rt.calls = 3
    /\ Len(rt.waits) = 2

(* ------------------------------------------------------------------ *)
(* Claims about useFirebaseSetup, useCmsConfig and submitLead          *)
(* ------------------------------------------------------------------ *)

SigningIn(c) == c \in DOMAIN cbs /\ cbs[c].pc = "signin"

\* C4: with backend configuration present, once the listener has been called
\* with no principal and the sign-in has started, isAuthReady becomes true in the
\* end with a non-empty userId; when no principal was ever signed in (every
\* sign-in attempt failed), that userId is a locally generated fallback.
C4_ReadyAfterRetriesExhausted ==
    \A c \in CallbackIds :
        SigningIn(c) ~> /\ isAuthReady
                        /\ userId # NoUser
                        /\ ~signedInEver => userId.kind = "uuid"

C4_Witness ==
    \E c \in DOMAIN cbs :
        /\ firebaseConfig
        /\ ~signedInEver
        /\ cbs[c].pc = "done"
        /\ cbs[c].task.pc = "rejected"
        /\ cbs[c].task.calls = DefaultRetries + 1
        /\ isAuthReady
        /\ userId = cbs[c].currentUserId
        /\ userId.kind = "uuid"

\* C5: an addDoc is in flight only while isAuthReady is true, records are in a
\* lead collection only while it is true, and a submitLead call made while
\* isAuthReady was false has returned the not-ready failure without any addDoc.
C5_NoLeadWriteBeforeReady ==
    /\ sub.task.pc = "inflight" => isAuthReady
    /\ leads # <<>> => isAuthReady
    /\ (sub.pc # "idle" /\ ~sub.ready)
          => /\ sub.pc = "returned"
             /\ sub.result = NotReady
             /\ sub.task.calls = 0

C5_Witness ==
    /\ db # NoDb
    /\ sub.pc = "returned"
    /\ ~sub.ready
    /\ sub.result = NotReady
    /\ sub.task.calls = 0

\* C6: while db is absent or isAuthReady is false, useCmsConfig has called
\* neither setDoc nor onSnapshot, and the view is the compiled-in defaults.
C6_NoRemoteOpBeforeGuard ==
    (db = NoDb \/ ~isAuthReady)
        => /\ seed.calls = 0
           /\ cmsSubscribes = 0
           /\ cmsSub = "none"
           /\ config = defaultData

C6_Witness ==
    /\ cmsDeps.ran
    /\ cmsDeps.db # NoDb
    /\ db # NoDb
    /\ ~isAuthReady
    /\ seed.calls = 0
    /\ cmsSubscribes = 0

\* C7: the config view is never the empty mapping.
C7_ViewNeverEmpty == DOMAIN config # {}

\* C8 as stated: once userId is non-null, no step assigns it another value.
C8_UserIdNeverChanges == [][userId # NoUser => userId' = userId]_vars

\* C8 amended: once userId is non-null it is never null again (a later
\* notification or a later end of a sign-in retry sequence may replace it by
\* another non-null identifier).
C8_UserIdStaysNonNull == [][userId # NoUser => userId' # NoUser]_vars

C8_Witness ==
    /\ mounted
    /\ userId # NoUser
    /\ \E c \in DOMAIN cbs :
          /\ cbs[c].pc = "done"
          /\ cbs[c].currentUserId # NoUser
          /\ cbs[c].currentUserId # userId

\* C9: once isAuthReady is true, it is true after every step.
C9_ReadinessMonotonic == [][isAuthReady => isAuthReady']_vars

C9_Witness ==
    /\ isAuthReady
    /\ \E c \in DOMAIN cbs : cbs[c].pc = "done" /\ cbs[c].task.pc = "rejected"
    /\ \E c \in DOMAIN cbs : cbs[c].pc = "done" /\ cbs[c].user # NoUser

\* C10: with no backend configuration, once the effect of useFirebaseSetup has
\* run, isAuthReady is true with userId and db absent, no auth-state subscription
\* was registered and no callback or sign-in can run; the view is the defaults,
\* useCmsConfig made no remote call, and every submitLead call has returned the
\* not-ready failure without any addDoc.
C10_DegradedWithoutConfig ==
    (~firebaseConfig /\ fbRan)
        => /\ isAuthReady
           /\ userId = NoUser
           /\ db = NoDb
           /\ authSubscribes = 0
           /\ authSub = "none"
           /\ cbs = <<>>
           /\ ~ENABLED onAuthStateChangedCallback
           /\ config = defaultData
           /\ seed.calls = 0
           /\ cmsSubscribes = 0
           /\ ~ENABLED onSnapshotNext
           /\ leads = <<>>
           /\ sub.pc # "idle"
                 => /\ sub.pc = "returned"
                    /\ sub.result = NotReady
                    /\ sub.task.calls = 0

C10_Witness ==
    /\ ~firebaseConfig
    /\ fbRan
    /\ isAuthReady
    /\ cmsDeps.ran
    /\ cmsDeps.isAuthReady
    /\ config = defaultData
    /\ sub.pc = "returned"
    /\ sub.result = NotReady

(* ------------------------------------------------------------------ *)
(* The view and the listeners of the shared document (CmsSpec)         *)
(* ------------------------------------------------------------------ *)

LastReceived == received[Len(received)]

\* C11: after a call of the snapshot listener the view is what that call alone
\* determines: exactly the received mapping when the document exists (no
\* default key is added to it), exactly the defaults when it does not; so a
\* document that does not exist followed by {years: "7+"} leaves {years: "7+"}
C11_ViewIsLastSnapshot ==
    (received # <<>> /\ LastReceived.kind = "next") =>
        /\ LastReceived.docSnap.exists => config = LastReceived.docSnap.data
        /\ ~LastReceived.docSnap.exists => config = defaultData

C11_Witness ==
    /\ Len(received) = 2
    /\ received[1] = NextCall(NoDoc)
    /\ received[2] = NextCall(Doc([years |-> "7+"]))
    /\ config = [years |-> "7+"]

\* C12: once the error listener of the subscription was called the view is the
\* defaults and stays so while that subscription lasts: no snapshot is
\* delivered after the error, and no second subscription is opened
C12_DefaultsAfterError ==
    cmsErrored =>
        /\ config = defaultData
        /\ LastReceived = ErrorCall
        /\ cmsSubscribes = 1

C12_Witness ==
    /\ cmsErrored
    /\ Len(received) = 2
    /\ received[1] = NextCall(Doc([years |-> "7+"]))
    /\ config = defaultData
    /\ docChanges = MaxDocChanges
    /\ seed.pc = "rejected"

\* C13: when every attempt of the seed write fails, the failure is swallowed
\* once the retries are used up (after DefaultRetries + 1 calls of setDoc): no
\* rejection leaves the hook, that step changes neither the view nor the
\* subscription, and the subscription stays open and goes on applying the
\* snapshots it receives
C13_SeedFailureSwallowed ==
    /\ [](seedDone # "unhandled")
    /\ []((seedDone = "swallowed" /\ mounted) => cmsSub = "active")
    /\ [][((seed.pc = "inflight" /\ seed'.pc = "rejected") =>
               /\ seed'.calls = DefaultRetries + 1
               /\ seedDone' = "swallowed"
               /\ config' = config
               /\ cmsSub' = cmsSub
               /\ cmsErrored' = cmsErrored
               /\ received' = received)
           /\ ((seedDone = "swallowed" /\ received' # received
                  /\ received'[Len(received')].kind = "next") =>
               config' = SnapshotView(remoteDoc))]_vars

C13_Witness ==
    /\ seedDone = "swallowed"
    /\ seed.calls = DefaultRetries + 1
    /\ cmsSub = "active"
    /\ ~cmsErrored
    /\ received = <<NextCall(Doc(defaultData)), NextCall(Doc([years |-> "7+"]))>>
    /\ remoteDoc = Doc([years |-> "7+"])
    /\ config = [years |-> "7+"]

(* ------------------------------------------------------------------ *)
(* submitLead (LeadSpec)                                               *)
(* ------------------------------------------------------------------ *)

\* C14: a call of submitLead with db absent or userId absent has returned in
\* the step of the call, with success false and the not-ready message, without
\* a call of addDoc and without a backoff delay
C14_NotReadyWithoutAttempt ==
    (sub.pc # "idle" /\ (sub.db = NoDb \/ sub.userId = NoUser)) =>
        /\ sub.pc = "returned"
        /\ sub.result = NotReady
        /\ ~sub.result.success
        /\ sub.task.calls = 0
        /\ sub.task.waits = <<>>
        /\ \A i \in DOMAIN leads : leads[i].submission # submits

C14_Witness ==
    /\ sub.pc = "returned"
    /\ sub.db = Firestore
    /\ sub.userId = NoUser
    /\ sub.result = NotReady
    /\ sub.task = IdleTask

\* C15: when every addDoc fails, a submission made after readiness with db and
\* userId present calls addDoc exactly DefaultRetries + 1 = 6 times and then
\* returns success false with a message that is not empty and is not the text
\* of the error
C15_FailsAfterSixAttempts ==
    (sub.ready /\ sub.db # NoDb /\ sub.userId # NoUser
       /\ sub.task.pc = "rejected") =>
        /\ sub.task.calls = DefaultRetries + 1
        /\ sub.task.calls = 6
        /\ sub.pc = "returned"
        /\ ~sub.result.success
        /\ sub.result.message # ""
        /\ sub.result.message # ErrorMessage(sub.error)
        /\ sub.error = Err(6)

C15_Witness ==
    /\ sub.ready
    /\ sub.pc = "returned"
    /\ sub.task.pc = "rejected"
    /\ sub.task.calls = 6
    /\ sub.result = SubmitFailed
    /\ leads = <<>>

\* the records submission n appended
RecordsOf(n) == {i \in DOMAIN leads : leads[i].submission = n}

\* C16: when the sign-in succeeded (in the witness: first on its 3rd attempt)
\* and the backend accepts the write, a submission made after readiness
\* returns success, and it has put exactly one record into the lead collection
\* scoped by the signed-in identity: the form's fields, status "New" and a
\* timestamp
C16_OneRecordForSignedInUser ==
    (sub.pc = "returned" /\ sub.ready /\ sub.task.pc = "resolved"
       /\ \E c \in DOMAIN cbs : /\ cbs[c].task.pc = "resolved"
                                /\ cbs[c].currentUserId = sub.userId) =>
        /\ sub.result = Submitted
        /\ sub.result.success
        /\ Cardinality(RecordsOf(submits)) = 1
        /\ submits = 1 => Len(leads) = 1
        /\ \A i \in RecordsOf(submits) :
              /\ leads[i].ref.users = sub.userId
              /\ leads[i].ref.collection = "zorix_leads"
              /\ DOMAIN leads[i].data = (DOMAIN FormData) \cup {"timestamp", "status"}
              /\ \A k \in DOMAIN FormData : leads[i].data[k] = FormData[k]
              /\ leads[i].data.status = "New"
              /\ leads[i].data.timestamp = toISOString(submits)

C16_Witness ==
    /\ sub.pc = "returned"
    /\ sub.ready
    /\ sub.result = Submitted
    /\ sub.task.calls = 1
    /\ Len(leads) = 1
    /\ \E c \in DOMAIN cbs : /\ cbs[c].task.pc = "resolved"
                             /\ cbs[c].task.calls = 3
                             /\ cbs[c].currentUserId = sub.userId
                             /\ leads[1].ref.users = cbs[c].currentUserId

\* C17: submitLead never rejects: a failure of building the collection
\* reference, or of addDoc on any attempt up to the last, ends in a returned
\* result with success false and a message
C17_NeverRejects ==
    /\ sub.pc \in {"idle", "running", "returned"}
    /\ (sub.error # NoResult) =>
          /\ sub.pc = "returned"
          /\ ~sub.result.success
          /\ sub.result.message # ""
    /\ (sub.task.pc = "rejected") => sub.error = sub.task.result
    /\ (sub.pc = "returned") => sub.result \in {NotReady, Submitted, SubmitFailed}

C17_Witness ==
    /\ sub.pc = "returned"
    /\ sub.error = Err(0)
    /\ sub.task = IdleTask
    /\ sub.result = SubmitFailed
    /\ sub.userId # NoUser

(* ------------------------------------------------------------------ *)
(* Subscriptions and teardown                                          *)
(* ------------------------------------------------------------------ *)

\* C18: an instance of useFirebaseSetup has at most one auth-state
\* subscription active at any time: onAuthStateChanged is registered exactly
\* once when the initialization succeeds (and not otherwise), and its
\* unsubscribe is called exactly once, at teardown
C18_OneAuthSubscription ==
    /\ authSubscribes - authUnsubscribes \in {0, 1}
    /\ authSub = "active" <=> authSubscribes - authUnsubscribes = 1
    /\ fbInit = "ok" => authSubscribes = 1
    /\ fbInit # "ok" => authSubscribes = 0
    /\ mounted => authUnsubscribes = 0
    /\ ~mounted => authUnsubscribes = authSubscribes

C18_Witness ==
    /\ ~mounted
    /\ fbInit = "ok"
    /\ authSubscribes = 1
    /\ authUnsubscribes = 1
    /\ authSub = "released"
    /\ Len(cbs) >= 2

\* C19: an instance of useCmsConfig has at most one subscription to the shared
\* document active at any time: onSnapshot is opened exactly once, by the run
\* of the effect that finds db present and isAuthReady true; its unsubscribe
\* is called exactly once, at teardown; after teardown the view does not change
C19_OneCmsSubscription ==
    /\ [](/\ cmsSubscribes - cmsUnsubscribes \in {0, 1}
          /\ cmsSub = "active" <=> cmsSubscribes - cmsUnsubscribes = 1
          /\ cmsSubscribes <= 1
          /\ cmsSubscribes = 1 <=>
                (cmsDeps.ran /\ cmsDeps.db # NoDb /\ cmsDeps.isAuthReady)
          /\ mounted => cmsUnsubscribes = 0
          /\ ~mounted => cmsUnsubscribes = cmsSubscribes)
    /\ [][~mounted => config' = config]_vars

C19_Witness ==
    /\ ~mounted
    /\ cmsSubscribes = 1
    /\ cmsUnsubscribes = 1
    /\ cmsSub = "released"
    /\ received # <<>>
    /\ LastReceived.kind = "next"
    /\ config = SnapshotView(LastReceived.docSnap)
    /\ Settled(seed)
    /\ SnapshotView(remoteDoc) # config

\* C20: teardown is final: a sign-in or a seed-write retry sequence that is in
\* flight at teardown may still succeed or fail, but after teardown no
\* subscription is registered and userId, isAuthReady and the view keep the
\* values they had at teardown
C20_TeardownIsFinal ==
    [][~mounted =>
         /\ userId' = userId
         /\ isAuthReady' = isAuthReady
         /\ config' = config
         /\ db' = db
         /\ auth' = auth
         /\ authSubscribes' = authSubscribes
         /\ cmsSubscribes' = cmsSubscribes
         /\ authSub' = authSub
         /\ cmsSub' = cmsSub]_vars

\* both sequences ended after the teardown: the last callback signed a
\* principal in that userId does not show, and the seed write went through
C20_Witness ==
    /\ ~mounted
    /\ cbs # <<>>
    /\ cbs[Len(cbs)].pc = "done"
    /\ cbs[Len(cbs)].task.pc = "resolved"
    /\ cbs[Len(cbs)].currentUserId # userId
    /\ cbs[Len(cbs)].currentUserId = currentUser
    /\ seedLate
    /\ seedDone = "seeded"
    /\ remoteDoc = Doc(defaultData)
    /\ authSubscribes = 1
    /\ cmsSubscribes = 1

(* ------------------------------------------------------------------ *)
(* The seed write and the document (CmsSpec)                           *)
(* ------------------------------------------------------------------ *)

\* C21: the seed step writes the defaults only when the shared document does
\* not exist yet: when the document exists, the values it holds for the default
\* keys (years, countries, projects, customers) are the same after the seed
\* write went through
C21_SeedLeavesRemoteValues ==
    [][(seedDone # "seeded" /\ seedDone' = "seeded" /\ remoteDoc.exists) =>
          \A k \in (DOMAIN defaultData) \cap (DOMAIN remoteDoc.data) :
              remoteDoc'.data[k] = remoteDoc.data[k]]_vars

(* ------------------------------------------------------------------ *)
(* The identity under concurrent notifications (IdSpec)                *)
(* ------------------------------------------------------------------ *)

\* callback c's sign-in sequence ends in this step with its last failure
SignInRejects(c) ==
    /\ c \in DOMAIN cbs
    /\ cbs[c].pc = "signin"
    /\ cbs'[c].pc = "done"
    /\ cbs'[c].task.pc = "rejected"

\* a callback delivered after c adopted the principal userId holds
AdoptedAfter(c) ==
    \E c2 \in DOMAIN cbs :
        /\ c2 > c
        /\ cbs[c2].pc = "done"
        /\ cbs[c2].user # NoUser
        /\ cbs[c2].currentUserId = userId

\* C22: in every interleaving of notifications and sign-in completions, once
\* userId holds the identifier of a signed-in principal, the failure of a
\* sign-in sequence started by an earlier notification without principal does
\* not replace it by a locally generated fallback identifier
C22_FallbackNeverReplacesSignedIn ==
    [][\A c \in DOMAIN cbs :
          (SignInRejects(c) /\ AdoptedAfter(c)) => userId'.kind # "uuid"]_vars

\* C23: in every reachable state where isAuthReady is true and db is present,
\* userId is an identifier: after the sign-in resolved, after the retries were
\* used up, and after the initialization threw when db was already set
C23_ReadyWithDbHasUserId ==
    (isAuthReady /\ db # NoDb) => userId # NoUser

(* ------------------------------------------------------------------ *)
(* What a submission leaves behind (LeadSpec)                          *)
(* ------------------------------------------------------------------ *)

\* C24: a call of submitLead appends at most one record, and its result says
\* what was stored: it returns success exactly when one record of that call
\* was appended, and failure only when none was
C24_ResultMatchesPersisted ==
    /\ \A n \in 1 .. submits : Cardinality(RecordsOf(n)) <= 1
    /\ (sub.pc = "returned") =>
          /\ sub.result.success <=> Cardinality(RecordsOf(submits)) = 1
          /\ ~sub.result.success => RecordsOf(submits) = {}
    /\ (sub.pc = "running") => RecordsOf(submits) = {}

C24_Witness ==
    /\ sub.pc = "returned"
    /\ sub.result = Submitted
    /\ sub.task.calls = 3
    /\ Len(sub.task.waits) = 2
    /\ Cardinality(RecordsOf(submits)) = 1
    /\ Len(leads) = 1

(* ------------------------------------------------------------------ *)
(* The waits of withRetry (RetrySpec)                                  *)
(* ------------------------------------------------------------------ *)

RECURSIVE Pow2(_)
Pow2(n) == IF n = 0 THEN 1 ELSE 2 * Pow2(n - 1)

\* C25: no wait precedes the first attempt, the wait before the i-th retry is
\* delay * 2^(i-1), and no wait follows the last failed attempt: with 5
\* retries and 1000 ms an operation that always fails is waited for 1000,
\* 2000, 4000, 8000 and 16000 ms, in that order
C25_WaitsDouble ==
    /\ \A i \in 1 .. Len(rt.waits) : rt.waits[i] = rtD * Pow2(i - 1)
    /\ (rt.pc \in {"inflight", "resolved", "rejected"}) => Len(rt.waits) = rt.calls - 1
    /\ (rt.pc = "wait") => Len(rt.waits) = rt.calls
    /\ (rt.pc = "rejected" /\ rtN = DefaultRetries /\ rtD = DefaultDelay) =>
          rt.waits = <<1000, 2000, 4000, 8000, 16000>>

C25_Witness ==
    /\ rt.pc = "rejected"
    /\ rtK = NeverSucceeds
    /\ rtN = 5
    /\ rtD = 1000
    /\ rt.calls = 6
    /\ rt.waits = <<1000, 2000, 4000, 8000, 16000>>

(* ------------------------------------------------------------------ *)
(* The subscription during the seed write (CmsSpec)                    *)
(* ------------------------------------------------------------------ *)

\* C26: while the seed write is still failing and backing off, the
\* subscription is open and a snapshot that is due can be delivered and is
\* applied to the view: neither waits for the end of the retry sequence
C26_SubscriptionDuringSeed ==
    /\ []((mounted /\ seed.pc \in {"inflight", "wait"}) => cmsSub = "active")
    /\ []((mounted /\ seed.pc \in {"inflight", "wait"} /\ snapPending /\ ~cmsErrored)
            => ENABLED onSnapshotNext)
    /\ [][(seed.pc = "wait" /\ received' # received
             /\ received'[Len(received')].kind = "next") =>
           config' = SnapshotView(received'[Len(received')].docSnap)]_vars

C26_Witness ==
    /\ seed.pc = "wait"
    /\ seed.calls = 1
    /\ docChanges = 0
    /\ remoteDoc = Doc([years |-> "7+"])
    /\ received = <<NextCall(Doc(defaultData)), NextCall(Doc([years |-> "7+"]))>>
    /\ config = [years |-> "7+"]

(* ------------------------------------------------------------------ *)
(* The sign-in method (IdSpec)                                         *)
(* ------------------------------------------------------------------ *)

\* C27: for a notification without principal the sign-in method is fixed by
\* the token alone: with a token every attempt is a token sign-in and
\* signInAnonymously is never called, also after all token attempts failed (no
\* anonymous principal is ever created); without a token every attempt is an
\* anonymous sign-in
C27_MethodFixedByToken ==
    /\ \A c \in DOMAIN cbs :
          /\ cbs[c].user = NoUser =>
                cbs[c].tried = {IF initialAuthToken THEN "token" ELSE "anon"}
          /\ cbs[c].user # NoUser => cbs[c].tried = {}
    /\ initialAuthToken => nextUid = 0
    /\ ~initialAuthToken => currentUser # TokenUser

C27_Witness ==
    /\ initialAuthToken
    /\ \E c \in DOMAIN cbs : /\ cbs[c].task.pc = "rejected"
                             /\ cbs[c].task.calls = DefaultRetries + 1
                             /\ cbs[c].tried = {"token"}
                             /\ userId = cbs[c].currentUserId
    /\ userId.kind = "uuid"
    /\ currentUser = NoUser

(* ------------------------------------------------------------------ *)
(* Termination of withRetry (RetryLiveSpec)                            *)
(* ------------------------------------------------------------------ *)

\* C28: for every integer passed as the retry count, a negative one included,
\* withRetry called with an operation that keeps failing settles (resolves or
\* rejects) after finitely many invocations
C28_AlwaysSettles ==
    (rt.pc # "idle" /\ rtK = NeverSucceeds) ~> Settled(rt)

(* ------------------------------------------------------------------ *)
(* The contact form (FormSpec)                                         *)
(* ------------------------------------------------------------------ *)

====
